---- MODULE Spec2Model ----
(***************************************************************************)
(* Model of jp-diet-search's pagination core (_DietCore in core.py): the   *)
(* file cache, the single-GET transport with its error classification,     *)
(* the validation helpers and the search_records paging loop, together     *)
(* with the exception hierarchy of exceptions.py.                          *)
(*                                                                         *)
(* Python values are records [t, n, items]: t is the type tag, n the int   *)
(* value (or the length of a str / list / dict), items the elements of a   *)
(* list.  A dict read from JSON or passed as params is a TLA+ function     *)
(* whose DOMAIN is the set of keys present.                                *)
(***************************************************************************)
EXTENDS Integers, Sequences, FiniteSets, TLC

\* ------------------------------------------------------------------ bounds

\* Most _request_json calls one search_records call may make in the model.
MaxPages == 3
\* Most search_records calls made on one _DietCore instance in the model.
MaxCalls == 2

\* ------------------------------------------------------------ Python values

None == [t |-> "none", n |-> 0, items |-> <<>>]
IntV(k) == [t |-> "int", n |-> k, items |-> <<>>]
\* A str of the given length (its characters do not matter to the code).
StrV(len) == [t |-> "str", n |-> len, items |-> <<>>]
ListV(xs) == [t |-> "list", n |-> Len(xs), items |-> xs]
\* A dict value with the given number of keys, found where a list is expected.
DictV(size) == [t |-> "dict", n |-> size, items |-> <<>>]

\* Mutant of Truthy: only None is falsy, so a zero cursor counts as present.
TruthyUnlessNone(v) == v.t # "none"

\* Python truthiness: None, 0, "", [] and {} are falsy.
Truthy(v) == v.t # "none" /\ v.n # 0

\* dict.get(key): None when the key is absent.
Get(d, key) == IF key \in DOMAIN d THEN d[key] ELSE None

\* dict.get(key, default).
GetDefault(d, key, default) == IF key \in DOMAIN d THEN d[key] ELSE default

\* Mutant of SetItem: the assignment leaves a dict with that one key.
SetItemFresh(d, key, v) == (key :> v)

\* d[key] = v on a copy of d.
SetItem(d, key, v) == (key :> v) @@ d

\* The dict with no key.
EmptyDict == [k \in {} |-> None]

\* Elements of a record list: a mapping with identity id, a scalar with
\* identity id, or the one-field mapping {"value": x} wrapping scalar x.
DictRec(i) == [isdict |-> TRUE, id |-> i, wraps |-> 0]
ScalarRec(i) == [isdict |-> FALSE, id |-> i, wraps |-> 0]
WrapValue(x) == [isdict |-> TRUE, id |-> 0, wraps |-> x.id]

\* ------------------------------------------------------- exception classes

DietSearchError == "DietSearchError"
DietSearchRequestError == "DietSearchRequestError"
DietSearchParseError == "DietSearchParseError"
DietSearchAPIError == "DietSearchAPIError"
DietSearchRateLimitError == "DietSearchRateLimitError"
NoError == "NoError"

ErrorKinds ==
    {DietSearchError, DietSearchRequestError, DietSearchParseError,
     DietSearchAPIError, DietSearchRateLimitError}

\* Mutant of BaseOf: DietSearchParseError and DietSearchRateLimitError derive
\* from the root class directly.
BaseOfFlat(cls) ==
    CASE cls = DietSearchError -> "Exception"
      [] cls = DietSearchRequestError -> DietSearchError
      [] cls = DietSearchParseError -> DietSearchError
      [] cls = DietSearchAPIError -> DietSearchError
      [] cls = DietSearchRateLimitError -> DietSearchError
      [] OTHER -> "Exception"

\* The base class named in each class statement ("Exception" for the root).
BaseOf(cls) ==
    CASE cls = DietSearchError -> "Exception"
      [] cls = DietSearchRequestError -> DietSearchError
      [] cls = DietSearchParseError -> DietSearchRequestError
      [] cls = DietSearchAPIError -> DietSearchError
      [] cls = DietSearchRateLimitError -> DietSearchAPIError
      [] OTHER -> "Exception"

\* isinstance(e, handler) for an exception e of class cls: an except clause
\* for handler catches it.
RECURSIVE IsInstance(_, _)
IsInstance(cls, handler) ==
    IF cls = handler THEN TRUE
    ELSE IF cls \notin ErrorKinds THEN FALSE
    ELSE IsInstance(BaseOf(cls), handler)

\* ---------------------------------------------------------------- endpoints

MeetingListUrl == "/meeting_list"
MeetingUrl == "/meeting"
SpeechUrl == "/speech"
Endpoints == {MeetingListUrl, MeetingUrl, SpeechUrl}

\* The record key each endpoint facade binds.
RecordKeyOf(ep) == IF ep = SpeechUrl THEN "speechRecord" ELSE "meetingRecord"

\* ------------------------------------------------------------------- state

VARIABLES
    cache_dir,      \* TRUE when self.cache_dir is a directory, FALSE when None
    cache,          \* the cache directory: cache key -> file
    calls,          \* search_records calls started on this instance
    pc,             \* "idle" | "loop" | "returned" | "raised"
    endpoint,       \* arguments of the running search_records call
    record_key,
    params,
    given_limit,    \* history: the limit_total the caller passed
    limit_total,    \* limit_total after sanitize_limit
    cur_params,     \* locals of search_records
    all_records,
    pages,
    total_records,
    result,         \* the dict returned (pc = "returned")
    err,            \* the class of the exception raised (pc = "raised")
    requests,       \* history: the params of each _request_json call
    served,         \* history: the dict each _request_json call returned
    responses,      \* history: the response of each call's session.get
                    \* (NoResponse for a call served from the cache)
    cacheReads,     \* history: cache files looked up by this call
    fetched,        \* history: <<cache key, body>> of every successful GET
                    \* made while a cache directory is configured
    lastCall,       \* history: the latest _request_json call made while a
                    \* cache directory is configured (kept across searches)
    query,          \* the query object the caller constructed last, with the
                    \* keyword arguments it was constructed from
    sleep_seconds,  \* self.sleep_seconds, in whole seconds
    sleeps,         \* time.sleep calls of the running search
    cache_file,     \* one cache file as concurrent calls see it: whether
                    \* the path exists, and the parts of text written
    proc,           \* the concurrent _request_json calls for that file's
                    \* key: where each stands, what it fetched and returned
    answered        \* history: the bodies the GETs of those calls returned

vars ==
    <<cache_dir, cache, calls, pc, endpoint, record_key, params, given_limit,
      limit_total, cur_params, all_records, pages, total_records, result, err, requests,
      served, responses, cacheReads, fetched, lastCall, query, sleep_seconds,
      sleeps, cache_file, proc, answered>>

\* The state of the sequential searches, and that of the concurrent calls.
searchVars ==
    <<cache_dir, cache, calls, pc, endpoint, record_key, params, given_limit,
      limit_total, cur_params, all_records, pages, total_records, result, err, requests,
      served, responses, cacheReads, fetched, lastCall, query, sleep_seconds,
      sleeps>>

raceVars == <<cache_file, proc, answered>>

\* -------------------------------------------------------------------- cache

\* The parameter names in the order sorted() puts them (by code point).
SortedNames ==
    <<"any", "closing", "contentsAndIndex", "from", "issueFrom", "issueID",
      "issueTo", "maximumRecords", "nameOfHouse", "nameOfMeeting",
      "recordPacking", "searchRange", "sessionFrom", "sessionTo", "speaker",
      "speakerGroup", "speakerPosition", "speakerRole", "speechID",
      "speechNumber", "startRecord", "supplementAndAppendix", "until">>

\* The place of each name in that order.
NameRanks ==
    [k \in {SortedNames[i] : i \in 1 .. Len(SortedNames)} |->
        CHOOSE i \in 1 .. Len(SortedNames) : SortedNames[i] = k]

NameRank(k) == NameRanks[k]

\* params.items() of a dict whose keys were inserted in the order ord.
Items(ps, ord) == [i \in 1 .. Len(ord) |-> <<ord[i], ps[ord[i]]>>]

\* Mutant of SortedItems: the items stay in insertion order.
ItemsAsInserted(items) == items

\* One item put at its place in a key-sorted list.
RECURSIVE InsertItem(_, _)
InsertItem(sorted, kv) ==
    IF sorted = <<>> THEN <<kv>>
    ELSE IF NameRank(kv[1]) < NameRank(Head(sorted)[1]) THEN <<kv>> \o sorted
    ELSE <<Head(sorted)>> \o InsertItem(Tail(sorted), kv)

\* sorted(params.items(), key=lambda kv: kv[0])
RECURSIVE SortedItems(_)
SortedItems(items) ==
    IF items = <<>> THEN <<>>
    ELSE InsertItem(SortedItems(Tail(items)), Head(items))

\* _cache_key on the items of params: the compact JSON text of the endpoint
\* and the key-sorted items, then its digest; both are taken as injective,
\* so the key is the pair itself.
CacheKeyOfItems(ep, items) == <<ep, SortedItems(items)>>

\* The keys S of a mapping in one of their insertion orders.
RECURSIVE SomeOrder(_)
SomeOrder(S) ==
    IF S = {} THEN <<>>
    ELSE LET k == CHOOSE x \in S : TRUE IN <<k>> \o SomeOrder(S \ {k})

\* _cache_key of a mapping.
CacheKey(ep, ps) == CacheKeyOfItems(ep, Items(ps, SomeOrder(DOMAIN ps)))

\* json.dump into the opened file, and a file cut short by a failed write.
DumpFile(data) == [complete |-> TRUE, data |-> data]
PartialFile(data) == [complete |-> FALSE, data |-> data]

\* Mutant of LoadFromCache: whatever the file holds is taken as the entry, so
\* a file cut short by a failed write is a hit.
LoadFromCacheTrustsFile(dir, files, ep, ps) ==
    IF ~dir THEN [hit |-> FALSE, data |-> EmptyDict]
    ELSE IF CacheKey(ep, ps) \notin DOMAIN files
    THEN [hit |-> FALSE, data |-> EmptyDict]
    ELSE [hit |-> TRUE, data |-> files[CacheKey(ep, ps)].data]

\* Mutant of LoadFromCache: no file is ever found.
LoadFromCacheNever(dir, files, ep, ps) == [hit |-> FALSE, data |-> EmptyDict]

\* _load_from_cache: [hit, data]; a missing directory, a missing file and an
\* undecodable file all give hit = FALSE (return None).
LoadFromCache(dir, files, ep, ps) ==
    LET cache_file_key == CacheKey(ep, ps) IN
    IF ~dir THEN [hit |-> FALSE, data |-> EmptyDict]
    ELSE IF cache_file_key \notin DOMAIN files
    THEN [hit |-> FALSE, data |-> EmptyDict]
    ELSE IF ~files[cache_file_key].complete
    THEN [hit |-> FALSE, data |-> EmptyDict]
    ELSE [hit |-> TRUE, data |-> files[cache_file_key].data]

\* Mutant of SaveToCache: the file is named after the endpoint alone, so a
\* later call with the same params does not find it.
SaveToCacheKeyedByEndpoint(dir, files, ep, ps, data, io) ==
    IF ~dir THEN files
    ELSE IF io = "open_fails" THEN files
    ELSE IF io = "write_fails"
    THEN (CacheKey(ep, EmptyDict) :> PartialFile(data)) @@ files
    ELSE (CacheKey(ep, EmptyDict) :> DumpFile(data)) @@ files

\* _save_to_cache: the directory after the call.  io is the outcome of the
\* file write: "ok", "open_fails" (nothing touched) or "write_fails" (the
\* file was opened for writing, so truncated, and the dump did not finish).
SaveToCache(dir, files, ep, ps, data, io) ==
    IF ~dir THEN files
    ELSE IF io = "open_fails" THEN files
    ELSE IF io = "write_fails"
    THEN (CacheKey(ep, ps) :> PartialFile(data)) @@ files
    ELSE (CacheKey(ep, ps) :> DumpFile(data)) @@ files

WriteOutcomes == {"ok", "open_fails", "write_fails"}

\* ---- one cache file under concurrent calls

\* The calls that run at the same time on one cache directory.
Procs == {1, 2}

\* A path that does not exist.
NoFile == [exists |-> FALSE, text |-> <<>>]

\* The places of a file's text that one write of the buffered writer fills:
\* the fields before the record list, and the record list.
Parts == {1, 2}

\* The text json.dump produces for data, by part.
Text(data) == [i \in Parts |-> [of |-> data, part |-> i]]

\* A place no write has filled.
Hole == [of |-> EmptyDict, part |-> 0]

\* The text after a write of part at place i by a writer with its own file
\* position: what was at the place is overwritten, the rest stays.
WriteAt(text, i, part) ==
    [j \in 1 .. (IF i > Len(text) THEN i ELSE Len(text)) |->
        IF j = i THEN part
        ELSE IF j <= Len(text) THEN text[j]
        ELSE Hole]

\* The record key of the pages in the file.
FileRecordKey == "speechRecord"

\* Two texts whose parts begin and end at the same places: those of pages
\* with as many records.
Aligned(a, b) ==
    Len(a[FileRecordKey].items) = Len(b[FileRecordKey].items)

\* json.load of the file, [ok, data]: a missing path, a text with a part
\* missing and parts that do not fit together give no value; parts of one
\* text give that text's value, and fitting parts of two texts give the fields
\* of the one with the record list of the other.
DecodeFile(file) ==
    LET none == [ok |-> FALSE, data |-> EmptyDict] IN
    IF ~file.exists \/ Len(file.text) # Cardinality(Parts) THEN none
    ELSE LET h == file.text[1]
             t == file.text[2]
         IN IF h.part # 1 \/ t.part # 2 THEN none
            ELSE IF h.of = t.of THEN [ok |-> TRUE, data |-> h.of]
            ELSE IF Aligned(h.of, t.of)
            THEN [ok |-> TRUE,
                  data |-> [k \in DOMAIN h.of |->
                              IF k = FileRecordKey THEN t.of[k] ELSE h.of[k]]]
            ELSE none

\* A call not yet made, after n calls of the same thread.
ProcIdle(n) ==
    [pc |-> "idle", body |-> EmptyDict, off |-> 0, got |-> EmptyDict,
     hit |-> FALSE, n |-> n]

\* ---------------------------------------------------------------- transport

\* What session.get does: raise a requests.RequestException (exc), or give
\* a response with a status, a body that decodes or not, and the decoded dict.
Response(exc, status, decodable, body) ==
    [exc |-> exc, status |-> status, decodable |-> decodable, body |-> body]

\* The entry of the response history for a call that made no GET.
NoResponse == Response(FALSE, 0, FALSE, EmptyDict)

\* Mutant of Classify: the body is decoded before the status is looked at, as
\* in DietSearchClient._request_json, so an undecodable 429 or 500 body is a
\* parse error.
ClassifyDecodeFirst(resp) ==
    IF resp.exc THEN DietSearchRequestError
    ELSE IF ~resp.decodable THEN DietSearchParseError
    ELSE IF resp.status = 429 THEN DietSearchRateLimitError
    ELSE IF resp.status # 200 THEN DietSearchAPIError
    ELSE NoError

\* The classification ladder of _request_json after a cache miss.
Classify(resp) ==
    IF resp.exc THEN DietSearchRequestError
    ELSE IF resp.status = 429 THEN DietSearchRateLimitError
    ELSE IF resp.status # 200 THEN DietSearchAPIError
    ELSE IF ~resp.decodable THEN DietSearchParseError
    ELSE NoError

\* Mutant of RequestJson: the body is saved as soon as it decodes, whatever
\* the status, so an error outcome reaches the cache.
RequestJsonSavesEarly(dir, files, ep, ps, resp, io) ==
    LET cached == LoadFromCache(dir, files, ep, ps) IN
    IF cached.hit
    THEN [err |-> NoError, data |-> cached.data, files |-> files, net |-> FALSE]
    ELSE IF resp.exc
    THEN [err |-> Classify(resp), data |-> EmptyDict, files |-> files, net |-> TRUE]
    ELSE IF Classify(resp) # NoError
    THEN [err |-> Classify(resp), data |-> EmptyDict,
          files |-> IF resp.decodable
                    THEN SaveToCache(dir, files, ep, ps, resp.body, io)
                    ELSE files,
          net |-> TRUE]
    ELSE [err |-> NoError, data |-> resp.body,
          files |-> SaveToCache(dir, files, ep, ps, resp.body, io), net |-> TRUE]

\* Mutant of RequestJson: an exception of the cache write is not swallowed
\* and leaves _request_json as a request error.
RequestJsonWriteRaises(dir, files, ep, ps, resp, io) ==
    LET cached == LoadFromCache(dir, files, ep, ps) IN
    IF cached.hit
    THEN [err |-> NoError, data |-> cached.data, files |-> files, net |-> FALSE]
    ELSE IF Classify(resp) # NoError
    THEN [err |-> Classify(resp), data |-> EmptyDict, files |-> files, net |-> TRUE]
    ELSE [err |-> IF dir /\ io # "ok" THEN DietSearchRequestError ELSE NoError,
          data |-> resp.body,
          files |-> SaveToCache(dir, files, ep, ps, resp.body, io), net |-> TRUE]

\* The entry of the call history: the cache key asked for, whether a GET was
\* made, whether the call returned, what it returned and how the cache write
\* went.
CallRecord(key, net, ok, data, io) ==
    [key |-> key, net |-> net, ok |-> ok, data |-> data, io |-> io]

NoCall == CallRecord(<<"", EmptyDict>>, FALSE, FALSE, EmptyDict, "none")

\* _request_json: [err, data, files, net] -- the exception class raised (or
\* NoError), the dict returned, the cache directory afterwards, and whether
\* session.get was called.
RequestJson(dir, files, ep, ps, resp, io) ==
    LET cached == LoadFromCache(dir, files, ep, ps) IN
    IF cached.hit
    THEN [err |-> NoError, data |-> cached.data, files |-> files, net |-> FALSE]
    ELSE IF Classify(resp) # NoError
    THEN [err |-> Classify(resp), data |-> EmptyDict, files |-> files, net |-> TRUE]
    ELSE [err |-> NoError, data |-> resp.body,
          files |-> SaveToCache(dir, files, ep, ps, resp.body, io), net |-> TRUE]

\* _request_json of thread p begins: the cache is read, and a decodable file
\* is returned at once.
RaceLoad(p) ==
    /\ cache_dir
    /\ proc[p].pc = "idle"
    /\ proc[p].n < MaxCalls
    /\ LET cached == DecodeFile(cache_file) IN
          proc' = [proc EXCEPT ![p] =
                     IF cached.ok
                     THEN [ProcIdle(proc[p].n + 1) EXCEPT
                              !.pc = "done", !.got = cached.data, !.hit = TRUE]
                     ELSE [ProcIdle(proc[p].n + 1) EXCEPT !.pc = "get"]]
    /\ UNCHANGED <<searchVars, cache_file, answered>>

\* The GET of thread p succeeds with one of the bodies.
RaceGet(p, bodies) ==
    /\ proc[p].pc = "get"
    /\ \E b \in bodies :
          /\ proc' = [proc EXCEPT ![p].pc = "open", ![p].body = b]
          /\ answered' = answered \cup {b}
    /\ UNCHANGED <<searchVars, cache_file>>

\* _save_to_cache of thread p opens the file for writing: the path exists
\* and is empty, and the writer stands at its beginning.
RaceOpen(p) ==
    /\ proc[p].pc = "open"
    /\ cache_file' = [exists |-> TRUE, text |-> <<>>]
    /\ proc' = [proc EXCEPT ![p].pc = "write", ![p].off = 0]
    /\ UNCHANGED <<searchVars, answered>>

\* json.dump of thread p gets its next part into the file; after the last
\* one the file is closed and _request_json returns the fetched data.
RaceWrite(p) ==
    /\ proc[p].pc = "write"
    /\ LET i == proc[p].off + 1 IN
          /\ cache_file' = [cache_file EXCEPT
                               !.text = WriteAt(@, i, Text(proc[p].body)[i])]
          /\ proc' = [proc EXCEPT
                         ![p].off = i,
                         ![p].pc = IF i = Cardinality(Parts) THEN "done" ELSE "write",
                         ![p].got = IF i = Cardinality(Parts)
                                    THEN proc[p].body ELSE proc[p].got]
    /\ UNCHANGED <<searchVars, answered>>

\* The caller of thread p has the value.
RaceReturn(p) ==
    /\ proc[p].pc = "done"
    /\ proc' = [proc EXCEPT ![p] = ProcIdle(proc[p].n)]
    /\ UNCHANGED <<searchVars, cache_file, answered>>

\* --------------------------------------------------------------- validation

ConditionKeys ==
    {"nameOfHouse", "nameOfMeeting", "any", "speaker", "from", "until",
     "speechNumber", "speakerPosition", "speakerGroup", "speakerRole",
     "speechID", "issueID", "sessionFrom", "sessionTo", "issueFrom", "issueTo"}

\* Mutant of CheckRequiredAnyCondition: a condition key that is merely present
\* passes, whatever its value.
CheckKeyPresenceOnly(ps) ==
    IF \E k \in ConditionKeys : k \in DOMAIN ps
    THEN NoError
    ELSE DietSearchAPIError

\* check_required_any_condition: the exception class raised, or NoError.
CheckRequiredAnyCondition(ps) ==
    IF \E k \in ConditionKeys :
          k \in DOMAIN ps /\ ps[k] # StrV(0) /\ ps[k] # None
    THEN NoError
    ELSE DietSearchAPIError

\* Mutant of SanitizeLimit: a limit <= 0 means no limit, as in
\* DietSearchClient._sanitize_limit.
SanitizeLimitLenient(lt) ==
    IF lt = None THEN [err |-> NoError, value |-> None]
    ELSE IF lt.t # "int" THEN [err |-> DietSearchRequestError, value |-> None]
    ELSE IF lt.n <= 0 THEN [err |-> NoError, value |-> None]
    ELSE [err |-> NoError, value |-> lt]

\* sanitize_limit: [err, value].  int() of a str is modelled for strs that
\* are not numerals, which raise ValueError.
SanitizeLimit(lt) ==
    IF lt = None THEN [err |-> NoError, value |-> None]
    ELSE IF lt.t # "int" THEN [err |-> DietSearchRequestError, value |-> None]
    ELSE IF lt.n <= 0 THEN [err |-> DietSearchRequestError, value |-> None]
    ELSE [err |-> NoError, value |-> lt]

\* ------------------------------------------------------------- query model

\* A bool, and a str whose text matters (a Literal member).
BoolV(b) == [t |-> "bool", n |-> IF b THEN 1 ELSE 0, items |-> <<>>]
TextV(s) == [t |-> "str", n |-> 1, items |-> <<s>>]

QueryClasses == {"MeetingListQuery", "MeetingQuery", "SpeechQuery"}

\* The fields of BaseQuery by declared type (each Optional).
IntFields ==
    {"start_record", "maximum_records", "speech_number", "session_from",
     "session_to", "issue_from", "issue_to"}
BoolFields == {"supplement_and_appendix", "contents_and_index", "closing"}
StrFields ==
    {"name_of_house", "name_of_meeting", "any", "speaker", "from_date",
     "until_date", "search_range", "speaker_position", "speaker_group",
     "speaker_role", "speech_id", "issue_id"}
FieldNames == IntFields \cup BoolFields \cup StrFields \cup {"record_packing"}

\* The keys list of require_some_condition.
ConditionFields ==
    {"name_of_house", "name_of_meeting", "any", "speaker", "from_date",
     "until_date", "speech_number", "speaker_position", "speaker_group",
     "speaker_role", "speech_id", "issue_id", "session_from", "session_to",
     "issue_from", "issue_to"}

\* Field(alias=...): from_date and until_date are also given as from, until.
FieldAlias(f) ==
    IF f = "from_date" THEN "from" ELSE IF f = "until_date" THEN "until" ELSE f

\* extra="forbid" with populate_by_name: the names a constructor call may use.
AcceptedNames == FieldNames \cup {FieldAlias(f) : f \in FieldNames}

\* Mutant of FieldDefault: record_packing defaults to None like the rest.
FieldDefaultNone(f) == None

\* The declared defaults: None, but "json" for record_packing.
FieldDefault(f) == IF f = "record_packing" THEN TextV("json") ELSE None

\* The value a field gets from the keyword arguments: by alias, else by
\* name, else the default.
Given(kw, f) ==
    IF FieldAlias(f) \in DOMAIN kw THEN kw[FieldAlias(f)]
    ELSE IF f \in DOMAIN kw THEN kw[f]
    ELSE FieldDefault(f)

\* The declared type accepts the value.  Values are None, ints, bools and
\* strs that are not numerals, so no conversion between them applies.
TypeOk(f, v) ==
    \/ v = None
    \/ f \in IntFields /\ v.t = "int"
    \/ f \in BoolFields /\ v.t = "bool"
    \/ f \in StrFields /\ v.t = "str"
    \/ f = "record_packing" /\ v \in {TextV("json"), TextV("xml")}

\* Field(ge=1) of start_record and maximum_records.
MinRecord == 1

MaxRecordsMeeting == 10
MaxRecordsList == 100

\* Mutant of Ceiling: every class has the ceiling of the list queries.
CeilingFlat(cls) == MaxRecordsList

\* max_100 of MeetingListQuery and SpeechQuery, max_10 of MeetingQuery.
Ceiling(cls) == IF cls = "MeetingQuery" THEN MaxRecordsMeeting ELSE MaxRecordsList

\* Mutant of RequireSomeCondition: a field counts unless it is None, so an
\* empty string is a condition.
RequireSomeConditionNotNone(fields) ==
    \E k \in ConditionFields : fields[k] # None

\* require_some_condition: some condition field is neither None nor "".
RequireSomeCondition(fields) ==
    \E k \in ConditionFields : fields[k] \notin {None, StrV(0)}

\* The query no constructor call has made yet.
NoQuery == [cls |-> "", kwargs |-> EmptyDict, ok |-> FALSE, fields |-> EmptyDict]

\* cls(**kw): ok is FALSE when pydantic raises ValidationError -- an unknown
\* name, a value of the wrong type, a paging field below 1, maximum_records
\* above the class's ceiling, or no condition.
ConstructQuery(cls, kw) ==
    LET fields == [f \in FieldNames |-> Given(kw, f)]
        ok == /\ DOMAIN kw \subseteq AcceptedNames
              /\ \A f \in FieldNames : TypeOk(f, fields[f])
              /\ \A f \in {"start_record", "maximum_records"} :
                    fields[f] # None => fields[f].n >= MinRecord
              /\ fields["maximum_records"] # None =>
                    fields["maximum_records"].n <= Ceiling(cls)
              /\ RequireSomeCondition(fields)
    IN [cls |-> cls, kwargs |-> kw, ok |-> ok,
        fields |-> IF ok THEN fields ELSE EmptyDict]

\* The mapping table of to_params.
RenameTable ==
    [start_record |-> "startRecord", maximum_records |-> "maximumRecords",
     record_packing |-> "recordPacking", name_of_house |-> "nameOfHouse",
     name_of_meeting |-> "nameOfMeeting",
     supplement_and_appendix |-> "supplementAndAppendix",
     contents_and_index |-> "contentsAndIndex", search_range |-> "searchRange",
     speech_number |-> "speechNumber", speaker_position |-> "speakerPosition",
     speaker_group |-> "speakerGroup", speaker_role |-> "speakerRole",
     speech_id |-> "speechID", issue_id |-> "issueID",
     session_from |-> "sessionFrom", session_to |-> "sessionTo",
     issue_from |-> "issueFrom", issue_to |-> "issueTo",
     from_date |-> "from", until_date |-> "until"]

\* Mutant of Rename: every key keeps the name it was dumped under.
RenameNothing(k) == k

\* mapping.get(k, k)
Rename(k) == IF k \in DOMAIN RenameTable THEN RenameTable[k] ELSE k

\* to_params: model_dump(by_alias=True, exclude_none=True) keeps the fields
\* that are not None under their alias, and the loop renames each key.
ToParams(fields) ==
    LET dumped == {f \in FieldNames : fields[f] # None}
    IN [w \in {Rename(FieldAlias(f)) : f \in dumped} |->
           fields[CHOOSE f \in dumped : Rename(FieldAlias(f)) = w]]

\* The facade that takes each query class, by its endpoint.
EndpointOf(cls) ==
    IF cls = "MeetingListQuery" THEN MeetingListUrl
    ELSE IF cls = "MeetingQuery" THEN MeetingUrl
    ELSE SpeechUrl

\* ------------------------------------------------------------ search_records

\* Mutant of AppendLoop: the cap test is > instead of >=, so the loop runs one
\* element past the cap before it cuts and returns.
RECURSIVE AppendLoopStrict(_, _, _)
AppendLoopStrict(acc, raw, limit) ==
    IF raw = <<>> THEN [records |-> acc, hit |-> FALSE]
    ELSE LET rec == Head(raw)
             acc1 == Append(acc, IF rec.isdict THEN rec ELSE WrapValue(rec))
         IN IF limit # None /\ Len(acc1) > limit.n
            THEN [records |-> SubSeq(acc1, 1, limit.n), hit |-> TRUE]
            ELSE AppendLoopStrict(acc1, Tail(raw), limit)

\* Mutant of AppendLoop: a non-dict element is skipped instead of wrapped.
RECURSIVE AppendLoopSkipsScalars(_, _, _)
AppendLoopSkipsScalars(acc, raw, limit) ==
    IF raw = <<>> THEN [records |-> acc, hit |-> FALSE]
    ELSE LET rec == Head(raw)
             acc1 == IF rec.isdict THEN Append(acc, rec) ELSE acc
         IN IF limit # None /\ Len(acc1) >= limit.n
            THEN [records |-> SubSeq(acc1, 1, limit.n), hit |-> TRUE]
            ELSE AppendLoopSkipsScalars(acc1, Tail(raw), limit)

\* Mutant of AppendLoop: a page that brings no record ends the search as if
\* the cap had been reached.
AppendLoopStopsOnEmpty(acc, raw, limit) ==
    IF raw = <<>> THEN [records |-> acc, hit |-> TRUE]
    ELSE AppendLoopSkipsScalars(acc, raw, limit)

\* The for loop over raw_records: append each element (a non-dict wrapped as
\* {"value": rec}) and, as soon as the accumulated count reaches the cap, cut
\* the list to the cap and stop.  [records, hit].
RECURSIVE AppendLoop(_, _, _)
AppendLoop(acc, raw, limit) ==
    IF raw = <<>> THEN [records |-> acc, hit |-> FALSE]
    ELSE LET rec == Head(raw)
             acc1 == Append(acc, IF rec.isdict THEN rec ELSE WrapValue(rec))
         IN IF limit # None /\ Len(acc1) >= limit.n
            THEN [records |-> SubSeq(acc1, 1, limit.n), hit |-> TRUE]
            ELSE AppendLoop(acc1, Tail(raw), limit)

\* raw_records = data.get(record_key, []) or []
RawRecords(data, key) ==
    LET v == GetDefault(data, key, ListV(<<>>))
    IN IF Truthy(v) THEN v ELSE ListV(<<>>)

\* total_records after the first-page capture.
CaptureTotal(total, data) ==
    IF total = None THEN Get(data, "totalRecords") ELSE total

\* Mutant of ResultDict: the params field is the loop's working copy, with
\* the cursor it has advanced to.
ResultDictReportsCursor(ep, ps, total, recs, npages, truncated) ==
    [endpoint |-> ep, params |-> cur_params, totalRecords |-> total,
     retrievedRecords |-> Len(recs), pages |-> npages, records |-> recs,
     truncated |-> truncated]

\* Mutant of ResultDict: the truncated field is always false.
ResultDictNeverTruncated(ep, ps, total, recs, npages, truncated) ==
    [endpoint |-> ep, params |-> ps, totalRecords |-> total,
     retrievedRecords |-> Len(recs), pages |-> npages, records |-> recs,
     truncated |-> FALSE]

\* The dict a return statement builds.
ResultDict(ep, ps, total, recs, npages, truncated) ==
    [endpoint |-> ep, params |-> ps, totalRecords |-> total,
     retrievedRecords |-> Len(recs), pages |-> npages, records |-> recs,
     truncated |-> truncated]

NoResult == ResultDict("", EmptyDict, None, <<>>, 0, FALSE)

\* Mutant of Pause: the loop goes on without sleeping.
PauseSkipped(delay, n) == n

\* if self.sleep_seconds: time.sleep(self.sleep_seconds), on a count n of
\* the sleeps made so far.
Pause(delay, n) == IF delay # 0 THEN n + 1 ELSE n

\* The instance after construction with a cache directory or none and an
\* inter-page delay.
InitConfigured(dirs, delays) ==
    /\ cache_dir \in dirs
    /\ sleep_seconds \in delays
    /\ sleeps = 0
    /\ cache_file = NoFile
    /\ proc = [p \in Procs |-> ProcIdle(0)]
    /\ answered = {}
    /\ cache = EmptyDict
    /\ calls = 0
    /\ pc = "idle"
    /\ endpoint = ""
    /\ record_key = ""
    /\ params = EmptyDict
    /\ given_limit = None
    /\ limit_total = None
    /\ cur_params = EmptyDict
    /\ all_records = <<>>
    /\ pages = 0
    /\ total_records = None
    /\ result = NoResult
    /\ err = NoError
    /\ requests = <<>>
    /\ served = <<>>
    /\ responses = <<>>
    /\ cacheReads = 0
    /\ fetched = {}
    /\ lastCall = NoCall
    /\ query = NoQuery

\* The instance with the default delay, sleep_seconds = 0.0.
InitWith(dirs) == InitConfigured(dirs, {0})

\* search_records up to the loop: the two checks, then the locals.
Call(eps, pss, lts) ==
    /\ pc = "idle"
    /\ calls < MaxCalls
    /\ \E ep \in eps, ps \in pss, lt \in lts :
          /\ endpoint' = ep
          /\ record_key' = RecordKeyOf(ep)
          /\ params' = ps
          /\ given_limit' = lt
          /\ IF CheckRequiredAnyCondition(ps) # NoError
             THEN /\ pc' = "raised"
                  /\ err' = CheckRequiredAnyCondition(ps)
                  /\ limit_total' = lt
                  /\ cur_params' = EmptyDict
             ELSE IF SanitizeLimit(lt).err # NoError
             THEN /\ pc' = "raised"
                  /\ err' = SanitizeLimit(lt).err
                  /\ limit_total' = lt
                  /\ cur_params' = EmptyDict
             ELSE /\ pc' = "loop"
                  /\ err' = NoError
                  /\ limit_total' = SanitizeLimit(lt).value
                  /\ cur_params' = ps
    /\ calls' = calls + 1
    /\ all_records' = <<>>
    /\ pages' = 0
    /\ total_records' = None
    /\ result' = NoResult
    /\ requests' = <<>>
    /\ served' = <<>>
    /\ responses' = <<>>
    /\ cacheReads' = 0
    /\ sleeps' = 0
    /\ UNCHANGED <<cache_dir, cache, fetched, lastCall, query, sleep_seconds,
                   raceVars>>

\* One iteration of the while loop: the fetch of a page through
\* _request_json, then the processing of the page up to the return, the
\* raise, or the cursor advance.
FetchPage(resps, ios) ==
    /\ pc = "loop"
    /\ pages < MaxPages
    /\ \E resp \in resps, io \in ios :
          LET rj == RequestJson(cache_dir, cache, endpoint, cur_params, resp, io)
              data == rj.data
              total == CaptureTotal(total_records, data)
              raw == RawRecords(data, record_key)
              loop == AppendLoop(all_records, raw.items, limit_total)
              next_pos == Get(data, "nextRecordPosition")
          IN /\ pages' = pages + 1
             /\ requests' = Append(requests, cur_params)
             /\ cacheReads' = cacheReads + (IF cache_dir THEN 1 ELSE 0)
             /\ responses' = Append(responses, IF rj.net THEN resp ELSE NoResponse)
             /\ cache' = rj.files
             /\ fetched' = IF cache_dir /\ rj.net /\ rj.err = NoError
                           THEN fetched \cup {<<CacheKey(endpoint, cur_params), data>>}
                           ELSE fetched
             /\ lastCall' = IF cache_dir
                            THEN CallRecord(CacheKey(endpoint, cur_params), rj.net,
                                            rj.err = NoError, data,
                                            IF rj.net /\ rj.err = NoError
                                            THEN io ELSE "none")
                            ELSE lastCall
             /\ IF rj.err # NoError
                THEN /\ pc' = "raised"
                     /\ err' = rj.err
                     /\ UNCHANGED <<served, total_records, all_records,
                                    result, cur_params, sleeps>>
                ELSE /\ served' = Append(served, data)
                     /\ total_records' = total
                     /\ IF raw.t # "list"
                        THEN /\ pc' = "raised"
                             /\ err' = DietSearchRequestError
                             /\ UNCHANGED <<all_records, result, cur_params,
                                            sleeps>>
                        ELSE /\ err' = NoError
                             /\ all_records' = loop.records
                             /\ IF loop.hit
                                THEN /\ pc' = "returned"
                                     /\ result' = ResultDict(endpoint, params, total,
                                                    loop.records, pages + 1, TRUE)
                                     /\ UNCHANGED <<cur_params, sleeps>>
                                ELSE IF ~Truthy(next_pos)
                                THEN /\ pc' = "returned"
                                     /\ result' = ResultDict(endpoint, params, total,
                                                    loop.records, pages + 1, FALSE)
                                     /\ UNCHANGED <<cur_params, sleeps>>
                                ELSE /\ pc' = "loop"
                                     /\ cur_params' =
                                            SetItem(cur_params, "startRecord", next_pos)
                                     /\ sleeps' = Pause(sleep_seconds, sleeps)
                                     /\ UNCHANGED result
    /\ UNCHANGED <<cache_dir, calls, endpoint, record_key, params, given_limit,
                   limit_total, query, sleep_seconds,
                   raceVars>>

\* The caller has the result or the exception; the instance is idle again.
Finish ==
    /\ pc \in {"returned", "raised"}
    /\ calls < MaxCalls
    /\ pc' = "idle"
    /\ endpoint' = ""
    /\ record_key' = ""
    /\ params' = EmptyDict
    /\ given_limit' = None
    /\ limit_total' = None
    /\ cur_params' = EmptyDict
    /\ all_records' = <<>>
    /\ pages' = 0
    /\ total_records' = None
    /\ result' = NoResult
    /\ err' = NoError
    /\ requests' = <<>>
    /\ served' = <<>>
    /\ responses' = <<>>
    /\ cacheReads' = 0
    /\ query' = NoQuery
    /\ sleeps' = 0
    /\ UNCHANGED <<cache_dir, cache, calls, fetched, lastCall, sleep_seconds,
                   raceVars>>

\* The caller constructs a query object: cls(**kw).
Construct(clss, kws) ==
    /\ pc = "idle"
    /\ calls < MaxCalls
    /\ \E cls \in clss, kw \in kws : query' = ConstructQuery(cls, kw)
    /\ UNCHANGED <<cache_dir, cache, calls, pc, endpoint, record_key, params,
                   given_limit, limit_total, cur_params, all_records, pages,
                   total_records, result, err, requests, served, responses,
                   cacheReads, fetched, lastCall, sleep_seconds, sleeps,
                   raceVars>>

\* The facade's search(query, limit_total=lt): search_records on the
\* query's endpoint with query.to_params().
Search(lts) ==
    /\ query.ok
    /\ Call({EndpointOf(query.cls)}, {ToParams(query.fields)}, lts)

\* ----------------------------------------------------------- DietSearchClient

\* A TypeError or ValueError of the interpreter, which no handler catches.
BuiltinError == "BuiltinError"

MeetingListResult(total, records) ==
    [number_of_records |-> IF Truthy(total) THEN total.n ELSE 0,
     records |-> records]

\* DietSearchClient._check_required_any_condition
LegacyCheckRequiredAnyCondition(ps) ==
    IF \E k \in ConditionKeys :
          k \in DOMAIN ps /\ ps[k] # StrV(0) /\ ps[k] # None
    THEN NoError
    ELSE DietSearchAPIError

\* Mutant of LegacySanitizeLimit: the limit is used as given.
LegacySanitizeLimitKeeps(lt) == lt

\* DietSearchClient._sanitize_limit: None, a value int() refuses and an int
\* <= 0 all give None.
LegacySanitizeLimit(lt) ==
    IF lt = None THEN None
    ELSE IF lt.t # "int" THEN None
    ELSE IF lt.n <= 0 THEN None
    ELSE lt

\* The page sizes _search_meetings and _search_speeches seed.
LegacyFullPageSize == 10
LegacyListPageSize == 100

\* params = dict(params) with the two setdefault calls.
LegacySeed(ep, ps) ==
    ps @@ ("maximumRecords" :>
              IntV(IF ep = MeetingUrl THEN LegacyFullPageSize ELSE LegacyListPageSize))
       @@ ("startRecord" :> IntV(1))

\* The params _request_json sends: None values dropped, recordPacking set.
LegacyWireParams(ps) ==
    [k \in {x \in DOMAIN ps : ps[x] # None} |-> ps[k]]
       @@ ("recordPacking" :> TextV("json"))

\* DietSearchClient._request_json: [err, data, files, net].  The body is
\* decoded whatever the status; a message without numberOfRecords is an
\* APIError.  The cache helpers are those of the core, under the wire params.
LegacyRequestJson(dir, files, ep, ps, resp, io) ==
    LET wire == LegacyWireParams(ps)
        cached == LoadFromCache(dir, files, ep, wire)
    IN IF cached.hit
       THEN [err |-> NoError, data |-> cached.data, files |-> files, net |-> FALSE]
       ELSE IF resp.exc \/ ~resp.decodable
       THEN [err |-> DietSearchRequestError, data |-> EmptyDict,
             files |-> files, net |-> TRUE]
       ELSE IF "message" \in DOMAIN resp.body
               /\ "numberOfRecords" \notin DOMAIN resp.body
       THEN [err |-> DietSearchAPIError, data |-> EmptyDict,
             files |-> files, net |-> TRUE]
       ELSE [err |-> NoError, data |-> resp.body,
             files |-> SaveToCache(dir, files, ep, wire, resp.body, io),
             net |-> TRUE]

\* int(data.get("numberOfRecords", 0)): [err, n]
NumberOfRecords(data) ==
    LET v == GetDefault(data, "numberOfRecords", IntV(0))
    IN IF v.t = "int" THEN [err |-> NoError, n |-> v.n]
       ELSE [err |-> BuiltinError, n |-> 0]

\* [Record.model_validate(m) for m in raw]: the exception class, or NoError.
\* An int cannot be iterated; a str or dict iterates over values that do not
\* validate; a list validates when every element is a mapping.
ParseRecords(raw) ==
    IF raw.t = "list"
    THEN IF \A i \in 1..Len(raw.items) : raw.items[i].isdict
         THEN NoError ELSE DietSearchRequestError
    ELSE IF raw.t \in {"str", "dict"} THEN DietSearchRequestError
    ELSE BuiltinError

\* One iteration of the while loop of _search_meetings / _search_speeches
\* after _request_json returned data: where the search stands then.
LegacyPage(acc, total, cp, key, data, limit) ==
    LET nor == NumberOfRecords(data)
        tot == IF Truthy(total) THEN total ELSE IntV(nor.n)
        raw == RawRecords(data, key)
        all == acc \o raw.items
        next_pos == Get(data, "nextRecordPosition")
        stay == [pc |-> "raised", err |-> NoError, all_records |-> acc,
                 total_records |-> total, cur_params |-> cp, result |-> NoResult]
    IN IF nor.err # NoError
       THEN [stay EXCEPT !.err = nor.err]
       ELSE IF ParseRecords(raw) # NoError
       THEN [stay EXCEPT !.err = ParseRecords(raw), !.total_records = tot]
       ELSE IF limit # None /\ Len(all) >= limit.n
       THEN [pc |-> "returned", err |-> NoError,
             all_records |-> SubSeq(all, 1, limit.n), total_records |-> tot,
             cur_params |-> cp,
             result |-> MeetingListResult(tot, SubSeq(all, 1, limit.n))]
       ELSE IF ~Truthy(next_pos) \/ (Len(all) >= nor.n /\ limit = None)
       THEN [pc |-> "returned", err |-> NoError, all_records |-> all,
             total_records |-> tot, cur_params |-> cp,
             result |-> MeetingListResult(tot, all)]
       ELSE [pc |-> "loop", err |-> NoError, all_records |-> all,
             total_records |-> tot,
             cur_params |-> SetItem(cp, "startRecord", next_pos),
             result |-> NoResult]

\* search_meeting_list / search_meeting / search_speech up to the loop.
LegacyCall(eps, pss, lts) ==
    /\ pc = "idle"
    /\ calls < MaxCalls
    /\ \E ep \in eps, ps \in pss, lt \in lts :
          /\ endpoint' = ep
          /\ record_key' = RecordKeyOf(ep)
          /\ params' = ps
          /\ given_limit' = lt
          /\ IF LegacyCheckRequiredAnyCondition(ps) # NoError
             THEN /\ pc' = "raised"
                  /\ err' = LegacyCheckRequiredAnyCondition(ps)
                  /\ limit_total' = lt
                  /\ cur_params' = EmptyDict
             ELSE /\ pc' = "loop"
                  /\ err' = NoError
                  /\ limit_total' = LegacySanitizeLimit(lt)
                  /\ cur_params' = LegacySeed(ep, ps)
    /\ calls' = calls + 1
    /\ all_records' = <<>>
    /\ pages' = 0
    /\ total_records' = None
    /\ result' = NoResult
    /\ requests' = <<>>
    /\ served' = <<>>
    /\ responses' = <<>>
    /\ cacheReads' = 0
    /\ sleeps' = 0
    /\ UNCHANGED <<cache_dir, cache, fetched, lastCall, query, sleep_seconds,
                   raceVars>>

\* One iteration of the while loop: _request_json, then the page.
LegacyFetchPage(resps, ios) ==
    /\ pc = "loop"
    /\ pages < MaxPages
    /\ \E resp \in resps, io \in ios :
          LET rj == LegacyRequestJson(cache_dir, cache, endpoint, cur_params,
                                      resp, io)
              after == LegacyPage(all_records, total_records, cur_params,
                                  record_key, rj.data, limit_total)
          IN /\ pages' = pages + 1
             /\ requests' = Append(requests, LegacyWireParams(cur_params))
             /\ cacheReads' = cacheReads + (IF cache_dir THEN 1 ELSE 0)
             /\ responses' = Append(responses, IF rj.net THEN resp ELSE NoResponse)
             /\ cache' = rj.files
             /\ IF rj.err # NoError
                THEN /\ pc' = "raised"
                     /\ err' = rj.err
                     /\ UNCHANGED <<served, total_records, all_records,
                                    result, cur_params, sleeps>>
                ELSE /\ served' = Append(served, rj.data)
                     /\ sleeps' = IF after.pc = "loop" THEN sleeps + 1 ELSE sleeps
                     /\ pc' = after.pc
                     /\ err' = after.err
                     /\ all_records' = after.all_records
                     /\ total_records' = after.total_records
                     /\ cur_params' = after.cur_params
                     /\ result' = after.result
    /\ UNCHANGED <<cache_dir, calls, endpoint, record_key, params, given_limit,
                   limit_total, fetched, lastCall, query, sleep_seconds,
                   raceVars>>

\* Mutant of EndpointSearch: the facade catches what the core raises and
\* raises the base class in its place.
EndpointSearchWraps(core_pc, core_err, core_result) ==
    [raised |-> core_pc = "raised",
     err |-> IF core_pc = "raised" THEN DietSearchError ELSE NoError,
     result |-> core_result]

\* MeetingListEndpoint.search, MeetingEndpoint.search, SpeechEndpoint.search:
\* what the facade's caller gets once search_records has ended -- the return
\* value of search_records as it is, or its exception, as there is no handler
\* between.
EndpointSearch(core_pc, core_err, core_result) ==
    [raised |-> core_pc = "raised", err |-> core_err, result |-> core_result]

\* ------------------------------------------------------------------- inputs

\* A page body: the keys whose value is None are left out of the dict.
PageBody(key, total, recs, next) ==
    [k \in {x \in {"totalRecords", key, "nextRecordPosition"} :
               (x = "totalRecords" /\ total # None)
            \/ (x = key /\ recs # None)
            \/ (x = "nextRecordPosition" /\ next # None)} |->
        IF k = "totalRecords" THEN total
        ELSE IF k = key THEN recs
        ELSE next]

RecordLists ==
    {<<>>, <<DictRec(1)>>, <<DictRec(1), ScalarRec(2)>>,
     <<ScalarRec(3), DictRec(4)>>}

RecordFields == {None, DictV(1)} \cup {ListV(xs) : xs \in RecordLists}
Totals == {None, IntV(3), IntV(5)}
Cursors == {None, IntV(0), IntV(2), IntV(3)}

\* Page bodies of /meeting_list: every record field and cursor under one
\* total, and every total and cursor around one record list.
PagerBodies ==
    {PageBody("meetingRecord", IntV(3), r, c) : r \in RecordFields, c \in Cursors}
    \cup {PageBody("meetingRecord", t, ListV(<<DictRec(1)>>), c) :
             t \in Totals, c \in Cursors}

PagerResponses == {Response(FALSE, 200, TRUE, b) : b \in PagerBodies}

PagerParams ==
    {("any" :> StrV(1)),
     ("any" :> StrV(1)) @@ ("startRecord" :> IntV(1)) @@ ("maximumRecords" :> IntV(2))}

PagerLimits == {None, IntV(1), IntV(2), IntV(3)}

\* Raw parameter mappings for direct calls: no key, each condition key alone
\* with an empty, null, non-empty and zero value, a paging key alone, and
\* mixtures of empty and set keys.
ValidateParams ==
    {EmptyDict, ("startRecord" :> IntV(1)), ("searchRange" :> StrV(1)),
     ("any" :> StrV(0)) @@ ("speaker" :> None),
     ("any" :> StrV(0)) @@ ("until" :> StrV(1)),
     ("issueTo" :> IntV(7)) @@ ("maximumRecords" :> IntV(5))}
    \cup {(k :> v) : k \in ConditionKeys, v \in {StrV(0), None, StrV(1), IntV(0)}}

ValidateLimits == {None, IntV(-1), IntV(0), IntV(1), StrV(3)}

\* A one-page body.
ValidateBodies ==
    {PageBody("meetingRecord", IntV(3), ListV(<<DictRec(1), DictRec(4)>>), None)}

ValidateResponses == {Response(FALSE, 200, TRUE, b) : b \in ValidateBodies}

\* The body by which the service reports an error under a success status: a
\* message and no numberOfRecords.
MessageBody == ("message" :> StrV(5))

\* Outcomes of session.get: a transport exception or a response, of every
\* status, decodable or not, around two page bodies (one with a cursor) and
\* the error body.
FetchBodies ==
    {PageBody("speechRecord", IntV(3), ListV(<<DictRec(1)>>), IntV(2)),
     PageBody("speechRecord", IntV(5), ListV(<<DictRec(4), ScalarRec(2)>>), None),
     MessageBody}

Statuses == {200, 429, 500}

\* A transport exception leaves no response, and a body that does not
\* decode gives no dict.
FetchResponses ==
    {Response(TRUE, 0, FALSE, EmptyDict)}
    \cup {Response(FALSE, st, FALSE, EmptyDict) : st \in Statuses}
    \cup {Response(FALSE, st, TRUE, b) : st \in Statuses, b \in FetchBodies}

\* The second mapping asks for the page the first one's cursor leads to.
FetchParams ==
    {("speaker" :> StrV(1)),
     ("speaker" :> StrV(1)) @@ ("startRecord" :> IntV(2))}

FetchLimits == {None, IntV(1)}

\* The names a condition field is given by.
ConditionNames == ConditionFields \cup {"from", "until"}

\* Keyword arguments of the query constructors: none; each condition name
\* alone with None, "", a text, 0 and a positive int; a condition with
\* maximum_records around both ceilings; record_packing given and not; flags,
\* aliases and paging fields together; empty conditions only; a paging field
\* only; a misspelt name.
QueryKwargs ==
    {EmptyDict}
    \cup {(n :> v) : n \in ConditionNames,
                     v \in {None, StrV(0), StrV(2), IntV(0), IntV(3)}}
    \cup {("any" :> StrV(2)) @@ ("maximum_records" :> m) :
            m \in {None, IntV(0), IntV(1), IntV(10), IntV(11), IntV(100),
                   IntV(101)}}
    \cup {("speaker" :> StrV(2)) @@ ("record_packing" :> p) :
            p \in {None, TextV("json"), TextV("xml"), StrV(3)}}
    \cup {("from" :> StrV(8)) @@ ("until_date" :> StrV(8))
             @@ ("start_record" :> IntV(5)) @@ ("search_range" :> StrV(4)),
          ("issue_id" :> StrV(3)) @@ ("supplement_and_appendix" :> BoolV(FALSE))
             @@ ("closing" :> BoolV(TRUE)) @@ ("speaker" :> None),
          ("session_from" :> IntV(1)) @@ ("session_to" :> IntV(2))
             @@ ("start_record" :> IntV(0)),
          ("name_of_house" :> StrV(0)) @@ ("name_of_meeting" :> StrV(0)),
          ("maximum_records" :> IntV(5)),
          ("speakr" :> StrV(2)),
          ("any" :> StrV(2)) @@ ("speakr" :> StrV(2))}

QueryLimits == {None, IntV(1)}

\* A page body of the service: numberOfRecords, the record list and the
\* cursor, the keys whose value is None left out.
LegacyBody(key, count, recs, next) ==
    [k \in {x \in {"numberOfRecords", key, "nextRecordPosition"} :
               (x = "numberOfRecords" /\ count # None)
            \/ (x = key /\ recs # None)
            \/ (x = "nextRecordPosition" /\ next # None)} |->
        IF k = "numberOfRecords" THEN count
        ELSE IF k = key THEN recs
        ELSE next]

\* Pages that go on, a last page, a page without a count, a page with a
\* record that does not validate, and the error body.
LegacyBodies ==
    {LegacyBody("meetingRecord", IntV(3), ListV(<<DictRec(1)>>), IntV(2)),
     LegacyBody("meetingRecord", IntV(3), ListV(<<DictRec(1), DictRec(4)>>), IntV(3)),
     LegacyBody("meetingRecord", IntV(3), ListV(<<DictRec(4)>>), None),
     LegacyBody("meetingRecord", None, ListV(<<DictRec(1)>>), IntV(2)),
     LegacyBody("meetingRecord", IntV(3), ListV(<<ScalarRec(2)>>), IntV(2)),
     MessageBody}

LegacyResponses ==
    {Response(FALSE, 200, TRUE, b) : b \in LegacyBodies}
    \cup {Response(TRUE, 0, FALSE, EmptyDict), Response(FALSE, 500, FALSE, EmptyDict)}

LegacyParams ==
    {EmptyDict, ("any" :> StrV(1)),
     ("speaker" :> StrV(1)) @@ ("until" :> None) @@ ("startRecord" :> IntV(2))}

LegacyLimits == {None, IntV(-1), IntV(0), IntV(2), StrV(3)}

\* Values found under the record key: mappings, strings and numbers, empty
\* and not, and lists.
ShapeFields ==
    {DictV(0), DictV(1), StrV(0), StrV(2), IntV(0), IntV(7),
     ListV(<<>>), ListV(<<DictRec(1)>>)}

ShapeBodies ==
    {PageBody("meetingRecord", None, r, c) :
        r \in ShapeFields, c \in {None, IntV(2)}}

ShapeResponses == {Response(FALSE, 200, TRUE, b) : b \in ShapeBodies}

ShapeParams == {("any" :> StrV(1))}

ShapeLimits == {None, IntV(1)}

\* Pages of zero, one and two records with a cursor and without, and a
\* failing answer.
PauseBodies ==
    {PageBody("speechRecord", IntV(5), ListV(xs), c) :
        xs \in {<<>>, <<DictRec(1)>>, <<DictRec(1), DictRec(4)>>},
        c \in {None, IntV(2)}}

PauseResponses ==
    {Response(FALSE, 200, TRUE, b) : b \in PauseBodies}
    \cup {Response(FALSE, 500, FALSE, EmptyDict)}

PauseParams == {EmptyDict, ("speaker" :> StrV(1))}

PauseLimits == {None, IntV(2)}

\* What the service answers for the key at different times: two pages of
\* one record and a page of two.
RaceBodies ==
    {PageBody("speechRecord", IntV(3), ListV(<<DictRec(1)>>), None),
     PageBody("speechRecord", IntV(5), ListV(<<DictRec(4)>>), None),
     PageBody("speechRecord", IntV(5), ListV(<<DictRec(4), DictRec(1)>>), None)}

\* ----------------------------------------------------------- specifications

Init == InitWith({FALSE})

Next ==
    \/ Call({MeetingListUrl}, PagerParams, PagerLimits)
    \/ FetchPage(PagerResponses, {"ok"})
    \/ Finish

\* Searches of /meeting_list over well-formed and ill-shaped pages, without
\* a cache directory.
Spec == Init /\ [][Next]_vars

InitValidate == InitWith(BOOLEAN)

NextValidate ==
    \/ Call({MeetingUrl}, ValidateParams, ValidateLimits)
    \/ FetchPage(ValidateResponses, {"ok"})
    \/ Finish

\* Direct calls of search_records with raw parameter mappings and limits of
\* every kind, with and without a cache directory.
SpecValidate == InitValidate /\ [][NextValidate]_vars

InitFetch == InitWith(BOOLEAN)

NextFetch ==
    \/ Call({SpeechUrl}, FetchParams, FetchLimits)
    \/ FetchPage(FetchResponses, WriteOutcomes)
    \/ Finish

\* Searches of /speech whose GETs end in every outcome, with a cache
\* directory whose writes may fail, and without one.
SpecFetch == InitFetch /\ [][NextFetch]_vars

InitQuery == InitWith({FALSE})

NextQuery ==
    \/ Construct(QueryClasses, QueryKwargs)
    \/ Search(QueryLimits)
    \/ FetchPage(ValidateResponses, {"ok"})
    \/ Finish

\* Searches through the endpoint facades with query objects constructed
\* from keyword arguments of every kind.
SpecQuery == InitQuery /\ [][NextQuery]_vars

InitShape == InitWith({FALSE})

NextShape ==
    \/ Call({MeetingListUrl}, ShapeParams, ShapeLimits)
    \/ FetchPage(ShapeResponses, {"ok"})
    \/ Finish

\* Searches of /meeting_list over pages with every kind of value under the
\* record key.
SpecShape == InitShape /\ [][NextShape]_vars

InitPause == InitConfigured({FALSE}, {0, 2})

NextPause ==
    \/ Call({SpeechUrl}, PauseParams, PauseLimits)
    \/ FetchPage(PauseResponses, {"ok"})
    \/ Finish

\* Searches of /speech by instances with and without an inter-page delay.
SpecPause == InitPause /\ [][NextPause]_vars

InitRace == InitConfigured({TRUE}, {0})

NextRace ==
    \E p \in Procs :
        \/ RaceLoad(p)
        \/ RaceGet(p, RaceBodies)
        \/ RaceOpen(p)
        \/ RaceWrite(p)
        \/ RaceReturn(p)

\* Concurrent _request_json calls for one key on a shared cache directory.
SpecRace == InitRace /\ [][NextRace]_vars

\* DietSearchClient's default delay is 2.0 seconds.
InitLegacy == InitConfigured({FALSE}, {2})

NextLegacy ==
    \/ LegacyCall(Endpoints, LegacyParams, LegacyLimits)
    \/ LegacyFetchPage(LegacyResponses, {"ok"})
    \/ Finish

\* Searches through search_meeting_list, search_meeting and search_speech
\* of DietSearchClient, with limits of every kind.
SpecLegacy == InitLegacy /\ [][NextLegacy]_vars

\* ------------------------------------------------- properties: the paging loop

\* The records a page carries, as the claims count them: the elements of the
\* list under the record key, none when the key is absent.
PageRecords(page, key) ==
    IF key \in DOMAIN page /\ page[key].t = "list" THEN page[key].items ELSE <<>>

\* A page of the shape the data model gives: the record key absent or a list.
WellFormedPage(page, key) == key \in DOMAIN page => page[key].t = "list"

\* A page whose cursor is present and non-empty.
HasCursor(page) ==
    /\ "nextRecordPosition" \in DOMAIN page
    /\ page["nextRecordPosition"] # None
    /\ page["nextRecordPosition"].n # 0

\* The GETs among the calls of a response history.
NetCalls(rs) == Cardinality({i \in 1..Len(rs) : rs[i] # NoResponse})

\* Records held by the first k pages of a page sequence.
RECURSIVE CountUpTo(_, _, _)
CountUpTo(pgs, key, k) ==
    IF k = 0 THEN 0
    ELSE CountUpTo(pgs, key, k - 1) + Len(PageRecords(pgs[k], key))

\* An element as the result holds it: a mapping as is, anything else as the
\* one-field record {"value": x}.
AsRecord(x) == IF x.isdict THEN x ELSE [isdict |-> TRUE, id |-> 0, wraps |-> x.id]

\* The concatenation, in fetch order, of the pages' record lists.
RECURSIVE ConcatPages(_, _)
ConcatPages(pgs, key) ==
    IF pgs = <<>> THEN <<>>
    ELSE LET last == PageRecords(pgs[Len(pgs)], key)
         IN ConcatPages(SubSeq(pgs, 1, Len(pgs) - 1), key)
              \o [i \in 1..Len(last) |-> AsRecord(last[i])]

FirstN(xs, k) == SubSeq(xs, 1, IF k < Len(xs) THEN k ELSE Len(xs))

\* C1: with limit_total unset, a search whose n >= 1 page responses are
\* well-formed, carry a non-empty cursor on pages 1..n-1 and none (absent or
\* zero) on page n, every fetch succeeding, has made exactly n fetches, reports pages = n and returns
\* truncated = false; and it never returns while the last page has a cursor.
C1_StopsAtFirstPageWithoutCursor ==
    (/\ pc # "idle"
     /\ given_limit = None
     /\ served # <<>>
     /\ Len(requests) = Len(served)
     /\ \A i \in 1..Len(served) : WellFormedPage(served[i], record_key))
    => /\ (\A i \in 1..(Len(served) - 1) : HasCursor(served[i]))
       /\ IF HasCursor(served[Len(served)])
          THEN pc = "loop" /\ pages = Len(served)
          ELSE /\ pc = "returned"
               /\ Len(requests) = Len(served)
               /\ (~cache_dir => NetCalls(responses) = Len(served))
               /\ result.pages = Len(served)
               /\ result.truncated = FALSE

\* C1 witness: three pages, cursors 2 and 3, then a zero-valued cursor.
C1_Witness ==
    /\ pc = "returned"
    /\ given_limit = None
    /\ Len(served) = 3
    /\ HasCursor(served[1]) /\ HasCursor(served[2])
    /\ Get(served[3], "nextRecordPosition") = IntV(0)
    /\ result.pages = 3
    /\ ~result.truncated

\* C2: with limit_total = L > 0, as soon as the pages fetched hold at least L
\* records the search has returned: exactly L records, truncated = true, and
\* the number of fetches is the least k whose pages 1..k hold L records.
C2_CapStopsAtLeastPage ==
    (/\ pc # "idle"
     /\ given_limit.t = "int"
     /\ given_limit.n > 0
     /\ served # <<>>
     /\ CountUpTo(served, record_key, Len(served)) >= given_limit.n)
    => /\ pc = "returned"
       /\ result.truncated = TRUE
       /\ Len(result.records) = given_limit.n
       /\ result.retrievedRecords = given_limit.n
       /\ result.pages = Len(served)
       /\ Len(requests) = Len(served)
       /\ (~cache_dir => NetCalls(responses) = Len(served))
       /\ CountUpTo(served, record_key, Len(served) - 1) < given_limit.n

\* C2 witness: L = 2 reached on the second page, which leaves a record over
\* and still has a cursor.
C2_Witness ==
    /\ pc = "returned"
    /\ given_limit = IntV(2)
    /\ Len(served) = 2
    /\ CountUpTo(served, record_key, 1) = 1
    /\ CountUpTo(served, record_key, 2) = 3
    /\ HasCursor(served[2])
    /\ result.truncated
    /\ Len(result.records) = 2

\* C3: the records returned are the concatenation, in fetch order, of the
\* fetched pages' record lists, a non-mapping element x standing as
\* {"value": x}; under limit_total = L, the first min(L, total) of them.
C3_RecordsAreConcatenation ==
    /\ pc = "returned" =>
          result.records =
             IF given_limit = None
             THEN ConcatPages(served, record_key)
             ELSE FirstN(ConcatPages(served, record_key), given_limit.n)
    /\ pc = "loop" => all_records = ConcatPages(served, record_key)

\* C3 witness: two pages, three records, a scalar among them, no cap hit.
C3_Witness ==
    /\ pc = "returned"
    /\ Len(served) = 2
    /\ ~result.truncated
    /\ Len(result.records) = 3
    /\ \E i \in 1..3 : result.records[i].wraps # 0
    /\ \E i \in 1..3 : result.records[i].id # 0

\* C4 (as claimed): the reported total of a result is the value the first
\* fetched page reported, also when that page reported none.
C4_TotalIsFirstPages ==
    pc = "returned" => result.totalRecords = Get(served[1], "totalRecords")

\* ------------------------------------------------ properties: the validation

\* A mapping in which some condition key has a value other than "" and null.
HasCondition(ps) ==
    \E k \in ConditionKeys : k \in DOMAIN ps /\ ps[k] \notin {StrV(0), None}

\* No cache read and no network call has been made by the running call.
NothingFetched ==
    /\ pages = 0
    /\ requests = <<>>
    /\ responses = <<>>
    /\ served = <<>>
    /\ cacheReads = 0

\* C5: a call with a valid condition and a limit_total <= 0 fails with a
\* RequestError, before any cache read or network call; it never runs as an
\* unbounded search.
C5_NonPositiveLimitIsRequestError ==
    (/\ pc # "idle"
     /\ HasCondition(params)
     /\ given_limit.t = "int"
     /\ given_limit.n <= 0)
    => /\ pc = "raised"
       /\ err = DietSearchRequestError
       /\ NothingFetched

\* C5 witness: limit_total = 0 refused on an instance with a cache directory.
C5_Witness ==
    /\ pc = "raised"
    /\ cache_dir
    /\ HasCondition(params)
    /\ given_limit = IntV(0)
    /\ err = DietSearchRequestError

\* C6: a direct call whose mapping has no condition key with a value other
\* than "" or null fails with an error before any cache read or network
\* call; with such a key the condition check passes, so the call fails
\* before its first fetch only on its limit_total.
C6_ConditionRequiredBeforeAnyFetch ==
    pc # "idle" =>
       IF ~HasCondition(params)
       THEN /\ pc = "raised"
            /\ IsInstance(err, DietSearchError)
            /\ NothingFetched
       ELSE (pc = "raised" /\ pages = 0) =>
               /\ err = DietSearchRequestError
               /\ given_limit # None
               /\ (given_limit.t # "int" \/ given_limit.n <= 0)

\* C6 witness: a condition key present with the empty string is refused on
\* an instance with a cache directory.
C6_Witness ==
    /\ pc = "raised"
    /\ cache_dir
    /\ "any" \in DOMAIN params
    /\ params["any"] = StrV(0)
    /\ ~HasCondition(params)
    /\ NothingFetched

\* The page size the claim gives each endpoint.
ClaimedDefaultPageSize(ep) == IF ep = MeetingUrl THEN 10 ELSE 100

\* C7 (as claimed): when the caller's mapping has no startRecord the first
\* request carries startRecord = 1, and when it has no maximumRecords every
\* request carries the endpoint's default page size.
C7_RequestsAreSeeded ==
    (pc # "idle" /\ requests # <<>>) =>
       /\ "startRecord" \notin DOMAIN params =>
             Get(requests[1], "startRecord") = IntV(1)
       /\ "maximumRecords" \notin DOMAIN params =>
             \A i \in 1..Len(requests) :
                Get(requests[i], "maximumRecords")
                   = IntV(ClaimedDefaultPageSize(endpoint))

\* --------------------------------- properties: the transport and the cache

\* The running call's latest _request_json call raised.
LastFetchRaised == pc = "raised" /\ Len(served) < Len(requests)

\* C8: on a cache miss the outcome of _request_json follows from its single
\* GET in this precedence: transport exception -> RequestError; status 429
\* -> RateLimitError; another status # 200 -> an APIError that is no
\* RateLimitError; 200 with an undecodable body -> ParseError; 200 and
\* decodable -> the decoded body is returned.  One outcome per response.
C8_ClassificationPrecedence ==
    (pc # "idle" /\ requests # <<>> /\ responses[Len(responses)] # NoResponse) =>
       LET r == responses[Len(responses)] IN
       CASE r.exc ->
               LastFetchRaised /\ err = DietSearchRequestError
         [] ~r.exc /\ r.status = 429 ->
               LastFetchRaised /\ err = DietSearchRateLimitError
         [] ~r.exc /\ r.status \notin {200, 429} ->
               /\ LastFetchRaised
               /\ IsInstance(err, DietSearchAPIError)
               /\ ~IsInstance(err, DietSearchRateLimitError)
         [] ~r.exc /\ r.status = 200 /\ ~r.decodable ->
               LastFetchRaised /\ err = DietSearchParseError
         [] ~r.exc /\ r.status = 200 /\ r.decodable ->
               /\ ~LastFetchRaised
               /\ Len(served) = Len(requests)
               /\ served[Len(served)] = r.body

\* C8 witness: a 429 with an undecodable body ends as a RateLimitError.
C8_Witness ==
    /\ pc = "raised"
    /\ responses # <<>>
    /\ responses[Len(responses)].status = 429
    /\ ~responses[Len(responses)].exc
    /\ ~responses[Len(responses)].decodable
    /\ err = DietSearchRateLimitError

\* C9: error kinds nest as stated.  Whatever is raised, and for every class:
\* a RateLimitError is caught as an APIError, a ParseError as a RequestError,
\* nothing is both an APIError and a RequestError, and the four kinds are
\* all caught as the base DietSearchError.
C9_ErrorKindsNest ==
    /\ \A k \in ErrorKinds :
          /\ IsInstance(k, DietSearchRateLimitError) => IsInstance(k, DietSearchAPIError)
          /\ IsInstance(k, DietSearchParseError) => IsInstance(k, DietSearchRequestError)
          /\ ~(IsInstance(k, DietSearchAPIError) /\ IsInstance(k, DietSearchRequestError))
          /\ IsInstance(k, DietSearchError)
    /\ pc = "raised" =>
          /\ err \in ErrorKinds \ {DietSearchError}
          /\ IsInstance(err, DietSearchError)
          /\ err = DietSearchRateLimitError =>
                IsInstance(err, DietSearchAPIError) /\ ~IsInstance(err, DietSearchRequestError)
          /\ err = DietSearchParseError =>
                IsInstance(err, DietSearchRequestError) /\ ~IsInstance(err, DietSearchAPIError)

\* C9 witness: a ParseError has been raised.
C9_Witness ==
    /\ pc = "raised"
    /\ err = DietSearchParseError
    /\ IsInstance(err, DietSearchRequestError)

\* Every file of the cache directory was written from the decoded body of a
\* successful GET for its key (a file cut short by a failed write is the
\* unfinished dump of such a body).
CacheHoldsOnlySuccesses ==
    \A k \in DOMAIN cache : <<k, cache[k].data>> \in fetched

\* A step in which the fetch raises leaves the cache directory as it was.
FailedFetchKeepsCache ==
    (pc' = "raised" /\ Len(served') < Len(requests')) => cache' = cache

\* C10: in every reachable state each cache entry holds the decoded body of
\* a fetch that ended in success, and a fetch that ends in RequestError,
\* RateLimitError, APIError or ParseError writes nothing and leaves every
\* entry unchanged.
C10_OnlySuccessIsCached ==
    /\ [] CacheHoldsOnlySuccesses
    /\ [][FailedFetchKeepsCache]_vars

\* C10 witness: a cached first page, then a second fetch that fails.
C10_Witness ==
    /\ pc = "raised"
    /\ Len(requests) = 2
    /\ Len(served) = 1
    /\ err = DietSearchAPIError
    /\ DOMAIN cache = {CacheKey(endpoint, requests[1])}
    /\ cache[CacheKey(endpoint, requests[1])] = DumpFile(served[1])

\* ---- Cache idempotence ----

\* This step is one _request_json call of the running search.
IsFetchStep == pc = "loop" /\ pages' = pages + 1

\* The call of this step asks for the key of the previous call, which made a
\* GET and returned.
RepeatsFetchedKey ==
    /\ cache_dir
    /\ IsFetchStep
    /\ lastCall.net
    /\ lastCall.ok
    /\ lastCall.key = CacheKey(endpoint, cur_params)

\* The call of this step makes no GET and returns what the previous call
\* returned.
AnsweredFromPreviousCall ==
    /\ responses'[Len(responses')] = NoResponse
    /\ Len(served') = Len(served) + 1
    /\ served'[Len(served')] = lastCall.data

ClaimedKind(r) ==
    CASE r.exc -> DietSearchRequestError
      [] ~r.exc /\ r.status = 429 -> DietSearchRateLimitError
      [] ~r.exc /\ r.status \notin {200, 429} -> DietSearchAPIError
      [] ~r.exc /\ r.status = 200 /\ ~r.decodable -> DietSearchParseError
      [] ~r.exc /\ r.status = 200 /\ r.decodable -> NoError

\* The call of this step asks for a key whose cache file exists and cannot be
\* decoded.
AsksForCorruptEntry ==
    /\ cache_dir
    /\ IsFetchStep
    /\ CacheKey(endpoint, cur_params) \in DOMAIN cache
    /\ ~cache[CacheKey(endpoint, cur_params)].complete

\* The call of this step made a GET and ended as that GET's response says.
EndsAsItsGetSays ==
    LET r == responses'[Len(responses')] IN
    /\ r # NoResponse
    /\ IF ClaimedKind(r) = NoError
       THEN /\ Len(served') = Len(served) + 1
            /\ served'[Len(served')] = r.body
       ELSE /\ pc' = "raised"
            /\ err' = ClaimedKind(r)
            /\ served' = served

\* C12: when the cache file of (endpoint, params) exists but cannot be
\* decoded, the lookup reports absent without raising and _request_json goes
\* to the network as on a miss: it makes the GET, and returns its body or
\* raises the class of its failure.
C12_CorruptEntryIsAMiss == [][AsksForCorruptEntry => EndsAsItsGetSays]_vars

\* A search asked for a key whose file is cut short, made the GET and was
\* turned away with a 429; the file is still the cut one.
C12_Witness ==
    /\ cache_dir
    /\ pc = "raised"
    /\ Len(requests) = 1
    /\ responses[1] # NoResponse
    /\ err = DietSearchRateLimitError
    /\ CacheKey(endpoint, requests[1]) \in DOMAIN cache
    /\ ~cache[CacheKey(endpoint, requests[1])].complete

\* ---- Failed cache writes ----

\* What the i-th call of the running search was answered with: the response
\* of its GET, or, for a call answered from the cache, that body.
AnsweredWith(i) ==
    IF responses[i] # NoResponse THEN responses[i]
    ELSE Response(FALSE, 200, TRUE, served[i])

\* The running search as search_records runs it without a cache directory,
\* given the same answers from call i on: where it stands after the last of
\* them, or where it ended before.
RECURSIVE Uncached(_, _, _, _)
Uncached(i, acc, total, cp) ==
    IF i > Len(requests)
    THEN [pc |-> "loop", err |-> NoError, result |-> NoResult, pages |-> i - 1]
    ELSE LET rj == RequestJson(FALSE, EmptyDict, endpoint, cp, AnsweredWith(i), "ok")
             raw == RawRecords(rj.data, record_key)
             loop == AppendLoop(acc, raw.items, limit_total)
             tot == CaptureTotal(total, rj.data)
             next_pos == Get(rj.data, "nextRecordPosition")
         IN IF rj.err # NoError
            THEN [pc |-> "raised", err |-> rj.err, result |-> NoResult, pages |-> i]
            ELSE IF raw.t # "list"
            THEN [pc |-> "raised", err |-> DietSearchRequestError,
                  result |-> NoResult, pages |-> i]
            ELSE IF loop.hit \/ ~Truthy(next_pos)
            THEN [pc |-> "returned", err |-> NoError,
                  result |-> ResultDict(endpoint, params, tot, loop.records,
                                        i, loop.hit),
                  pages |-> i]
            ELSE Uncached(i + 1, loop.records, tot,
                          SetItem(cp, "startRecord", next_pos))

\* A call of the running search made a GET, got its body, and left no
\* decodable file for its key: its cache write failed.
SomeWriteFailed ==
    \E i \in 1..Len(served) :
       /\ responses[i] # NoResponse
       /\ \/ CacheKey(endpoint, requests[i]) \notin DOMAIN cache
          \/ ~cache[CacheKey(endpoint, requests[i])].complete

\* C13: a failing cache write never aborts a search: whichever cache writes
\* fail, the search stands, returns or raises exactly as the same search
\* without a cache directory does on the same answers, so no exception comes
\* from the cache and the result (records, pages, truncated, total) is the
\* same.
C13_WriteFailuresAreInvisible ==
    (pc # "idle" /\ requests # <<>>) =>
       [pc |-> pc, err |-> err, result |-> result, pages |-> pages]
          = Uncached(1, <<>>, None, params)

\* A two-page search returned although both of its cache writes failed, one
\* at the open and one during the dump.
C13_Witness ==
    /\ cache_dir
    /\ pc = "returned"
    /\ Len(served) = 2
    /\ NetCalls(responses) = 2
    /\ SomeWriteFailed
    /\ CacheKey(endpoint, requests[1]) \notin DOMAIN cache
    /\ CacheKey(endpoint, requests[2]) \in DOMAIN cache
    /\ ~cache[CacheKey(endpoint, requests[2])].complete
    /\ Len(result.records) = 3

\* ---- Failed fetches ----

\* The latest call of the running search made a GET that failed.
LastGetFailed ==
    /\ pc # "idle"
    /\ requests # <<>>
    /\ responses[Len(responses)] # NoResponse
    /\ ClaimedKind(responses[Len(responses)]) # NoError

\* The search ended at the failed fetch: nothing is returned, the records of
\* the pages before are not handed over, and the facade's caller gets an
\* exception of the class of the failure.
FailedFetchEndsSearch ==
    LET got == EndpointSearch(pc, err, result) IN
    /\ pc = "raised"
    /\ Len(served) = Len(requests) - 1
    /\ pages = Len(requests)
    /\ got.raised
    /\ got.err = ClaimedKind(responses[Len(responses)])
    /\ got.result = NoResult

\* After a raise the search makes no further call: the next step hands the
\* exception over.
NoFetchAfterRaise ==
    pc = "raised" => /\ pc' = "idle"
                     /\ cache' = cache
                     /\ lastCall' = lastCall

\* C14: when the fetch of page k fails the search makes no retry and no
\* further fetch, returns no result (the records of pages 1..k-1 are not
\* delivered), and the caller of the endpoint facade's search gets an error
\* of exactly the class the fetch raised.
C14_FailedFetchPropagates ==
    /\ [](LastGetFailed => FailedFetchEndsSearch)
    /\ [][NoFetchAfterRaise]_vars

\* The second fetch's body did not decode: a ParseError with the first
\* page's record collected and nothing returned.
C14_Witness ==
    /\ pc = "raised"
    /\ Len(requests) = 2
    /\ Len(served) = 1
    /\ all_records # <<>>
    /\ result = NoResult
    /\ EndpointSearch(pc, err, result).err = DietSearchParseError

\* ---- Error bodies under a success status ----

\* A decoded body that carries a message and no record count.
IsMessageBody(body) ==
    "message" \in DOMAIN body /\ "numberOfRecords" \notin DOMAIN body

\* C15 (as claimed): a GET of _request_json answered with status 200 and a
\* decodable body that has a message field and no record-count field fails
\* with an APIError, is not served as a page and is not written to the cache.
C15_MessageBodyIsAPIError ==
    (/\ pc # "idle"
     /\ requests # <<>>
     /\ responses[Len(responses)] # NoResponse
     /\ ClaimedKind(responses[Len(responses)]) = NoError
     /\ IsMessageBody(responses[Len(responses)].body))
    => /\ LastFetchRaised
       /\ IsInstance(err, DietSearchAPIError)
       /\ <<CacheKey(endpoint, requests[Len(requests)]),
            responses[Len(responses)].body>> \notin fetched

\* ---- What an APIError tells the caller ----

\* C20 (as claimed): an APIError (a RateLimitError included) reaches the
\* caller of search_records only when the service answered a request of that
\* search with a failure; misuse found before any request (no search
\* condition, an invalid limit_total) is raised as a class that is no
\* APIError.
C20_APIErrorMeansRemoteFailure ==
    /\ (pc = "raised" /\ IsInstance(err, DietSearchAPIError)) =>
          \E i \in 1..Len(responses) :
             /\ responses[i] # NoResponse
             /\ ~responses[i].exc
             /\ responses[i].status # 200
    /\ (pc = "raised" /\ requests = <<>>) =>
          ~IsInstance(err, DietSearchAPIError)

\* ---------------------------------------------- properties: the query model

\* A constructor call has been made and its outcome is in query.
Constructed == query.cls # ""

\* The value the caller gave a field, under its name or its alias; None when
\* the caller left it out.
CallerGave(f) ==
    IF f \in DOMAIN query.kwargs THEN query.kwargs[f]
    ELSE IF FieldAlias(f) \in DOMAIN query.kwargs THEN query.kwargs[FieldAlias(f)]
    ELSE None

\* The caller gave exactly one argument: a condition field with a non-empty
\* value of the field's type.
OneConditionGiven ==
    /\ Cardinality(DOMAIN query.kwargs) = 1
    /\ \E f \in ConditionFields :
          /\ DOMAIN query.kwargs \subseteq {f, FieldAlias(f)}
          /\ IF f \in IntFields
             THEN CallerGave(f).t = "int"
             ELSE CallerGave(f).t = "str" /\ CallerGave(f).n > 0

\* C16: for each of the three query classes, construction with every one of
\* the 16 condition fields unset or an empty string fails with a validation
\* error, before any network call; construction with exactly one condition
\* field set to a non-empty value and nothing else succeeds.
C16_ConditionRequiredAtConstruction ==
    Constructed =>
       /\ (\A f \in ConditionFields : CallerGave(f) \in {None, StrV(0)}) =>
             /\ ~query.ok
             /\ pc = "idle"
             /\ requests = <<>>
             /\ responses = <<>>
       /\ OneConditionGiven => query.ok

\* A SpeechQuery given two condition fields, both empty strings, was
\* rejected.
C16_Witness ==
    /\ query.cls = "SpeechQuery"
    /\ query.kwargs = ("name_of_house" :> StrV(0)) @@ ("name_of_meeting" :> StrV(0))
    /\ ~query.ok
    /\ requests = <<>>

\* The ceiling the claim gives each class.
ClaimedCeiling(cls) == IF cls = "MeetingQuery" THEN 10 ELSE 100

\* C17: given a valid condition, a MeetingQuery is accepted exactly when its
\* maximum_records is unset or in 1..10, a MeetingListQuery or SpeechQuery
\* exactly when it is unset or in 1..100.
C17_PageSizeCeiling ==
    (/\ Constructed
     /\ DOMAIN query.kwargs \subseteq {"any", "maximum_records"}
     /\ "any" \in DOMAIN query.kwargs
     /\ query.kwargs["any"].t = "str"
     /\ query.kwargs["any"].n > 0)
    => (query.ok <=>
           \/ CallerGave("maximum_records") = None
           \/ /\ CallerGave("maximum_records").t = "int"
              /\ CallerGave("maximum_records").n >= 1
              /\ CallerGave("maximum_records").n <= ClaimedCeiling(query.cls))

\* A MeetingQuery with a condition and maximum_records = 11 was rejected.
C17_Witness ==
    /\ query.cls = "MeetingQuery"
    /\ query.kwargs = ("any" :> StrV(2)) @@ ("maximum_records" :> IntV(11))
    /\ ~query.ok

\* The arguments the caller gave a value other than None.
CallerSet == {n \in DOMAIN query.kwargs : query.kwargs[n] # None}

\* The facade has called to_params on the query and passed the mapping on.
ParamsTaken == query.ok /\ pc # "idle"

RECURSIVE LegacyUnbounded(_, _, _, _)
LegacyUnbounded(i, acc, total, cp) ==
    IF i > Len(requests)
    THEN [pc |-> "loop", err |-> NoError, result |-> NoResult, pages |-> i - 1,
          all_records |-> acc]
    ELSE LET rj == LegacyRequestJson(FALSE, EmptyDict, endpoint, cp,
                                     AnsweredWith(i), "ok")
             after == LegacyPage(acc, total, cp, record_key, rj.data,
                                 LegacySanitizeLimit(None))
         IN IF requests[i] # LegacyWireParams(cp)
            THEN [pc |-> "apart", err |-> NoError, result |-> NoResult,
                  pages |-> i, all_records |-> acc]
            ELSE IF rj.err # NoError
            THEN [pc |-> "raised", err |-> rj.err, result |-> NoResult,
                  pages |-> i, all_records |-> acc]
            ELSE IF after.pc # "loop"
            THEN [pc |-> after.pc, err |-> after.err, result |-> after.result,
                  pages |-> i, all_records |-> after.all_records]
            ELSE LegacyUnbounded(i + 1, after.all_records, after.total_records,
                                 after.cur_params)

\* The same call with limit_total unset.
LegacySearchUnbounded ==
    IF LegacyCheckRequiredAnyCondition(params) # NoError
    THEN [pc |-> "raised", err |-> LegacyCheckRequiredAnyCondition(params),
          result |-> NoResult, pages |-> 0, all_records |-> <<>>]
    ELSE LegacyUnbounded(1, <<>>, None, LegacySeed(endpoint, params))

\* C19: for DietSearchClient (search_meeting_list, search_meeting,
\* search_speech) a limit_total <= 0 raises nothing and the search goes
\* exactly as with limit_total unset: the same requests, the same records,
\* the same result or exception at the same page.
C19_NonPositiveLimitIsUnbounded ==
    (pc # "idle" /\ given_limit.t = "int" /\ given_limit.n <= 0) =>
       /\ [pc |-> pc, err |-> err, result |-> result, pages |-> pages,
           all_records |-> all_records] = LegacySearchUnbounded
       /\ (pc = "raised" /\ requests = <<>>) =>
             LegacyCheckRequiredAnyCondition(params) # NoError

\* search with limit_total = 0 returned all three records of its two pages.
C19_Witness ==
    /\ given_limit = IntV(0)
    /\ pc = "returned"
    /\ Len(served) = 2
    /\ Len(result.records) = 3
    /\ result.number_of_records = 3

\* ------------------------------------------ properties: shapes and requests

\* The page holds, under the record key, a value that is no list and no
\* null: a mapping, a string or a number, empty or not.
HasNonListRecords(page, key) ==
    /\ key \in DOMAIN page
    /\ page[key].t \notin {"list", "none"}

\* C21 (as claimed): whenever a fetched page has a value under record_key
\* that is present and not a list, empty or not, the search fails with a
\* RequestError and the page does not count as one with zero records.
C21_NonListRecordsRaise ==
    (/\ pc # "idle"
     /\ served # <<>>
     /\ Len(served) = Len(requests)
     /\ HasNonListRecords(served[Len(served)], record_key))
    => /\ pc = "raised"
       /\ err = DietSearchRequestError

\* The requests of the running search after the first: request i + 1 asks for
\* the position page i pointed to and is otherwise the caller's mapping.
FollowsCursor(i) ==
    /\ i <= Len(served)
    /\ DOMAIN requests[i + 1] = DOMAIN params \cup {"startRecord"}
    /\ requests[i + 1]["startRecord"] = Get(served[i], "nextRecordPosition")
    /\ \A k \in DOMAIN params \ {"startRecord"} :
          requests[i + 1][k] = params[k]

\* C22: within one search the pages are requested one at a time: every
\* request but a failing last one has its response processed before the next
\* is made, the first request is the caller's mapping, request i + 1 carries
\* startRecord equal to the nextRecordPosition of response i, and every other
\* parameter of every request equals the caller's original value.
C22_RequestsFollowCursors ==
    /\ Len(responses) = Len(requests)
    /\ Len(requests) = pages
    /\ pc = "loop" => Len(served) = Len(requests)
    /\ Len(served) \in {Len(requests), Len(requests) - 1}
    /\ requests # <<>> => requests[1] = params
    /\ \A i \in 1 .. Len(requests) - 1 : FollowsCursor(i)

\* A third request, after cursors 2 and 3, of a search whose caller passed
\* startRecord and maximumRecords of its own.
C22_Witness ==
    /\ Len(requests) = 3
    /\ "maximumRecords" \in DOMAIN params
    /\ params["startRecord"] = IntV(1)
    /\ requests[2]["startRecord"] = IntV(2)
    /\ requests[3]["startRecord"] = IntV(3)

\* C23: with a non-zero delay the search pauses once between consecutive
\* fetches and nowhere else: none before the first fetch, as many as pages
\* while another fetch is to come, and one fewer than the pages fetched once
\* the search has ended, be it on the last page, on the page of the cap or
\* on a failed fetch.
C23_OnePauseBetweenFetches ==
    sleep_seconds # 0 =>
        /\ pages = 0 => sleeps = 0
        /\ pc = "loop" => sleeps = pages
        /\ (pc \in {"returned", "raised"} /\ pages >= 1) => sleeps = pages - 1

\* A delayed search that reached its cap on its third page, after two
\* pauses.
C23_Witness ==
    /\ sleep_seconds # 0
    /\ pc = "returned"
    /\ result.truncated
    /\ pages = 3
    /\ sleeps = 2

\* ---- Write-once entries ----

\* The directory holds a decodable file for (ep, ps).
Readable(files, ep, ps) ==
    /\ CacheKey(ep, ps) \in DOMAIN files
    /\ files[CacheKey(ep, ps)].complete

\* This step is a fetch for a key whose entry is readable.
FetchOfStoredKey ==
    /\ cache_dir
    /\ IsFetchStep
    /\ Readable(cache, endpoint, cur_params)

\* The fetch of this step makes no GET, hands over the stored value and
\* leaves the directory as it was.
ServedFromEntry ==
    /\ responses'[Len(responses')] = NoResponse
    /\ served' = Append(served, cache[CacheKey(endpoint, cur_params)].data)
    /\ pc' # "raised"
    /\ cache' = cache

\* No readable entry is removed or rewritten by this step.
EntriesKept ==
    \A k \in DOMAIN cache :
        cache[k].complete => (k \in DOMAIN cache' /\ cache'[k] = cache[k])

\* C24: under sequential use with a cache directory a readable entry is
\* write-once: no step removes or rewrites it, and every fetch for its key
\* returns the stored value with no network call, whatever the server would
\* answer now.
C24_ReadableEntryIsWriteOnce ==
    [][EntriesKept /\ (FetchOfStoredKey => ServedFromEntry)]_vars

\* A search whose first page came from the network and whose second page
\* came from the entry an earlier search stored.
C24_Witness ==
    /\ cache_dir
    /\ calls = 2
    /\ Len(responses) = 2
    /\ responses[1] # NoResponse
    /\ responses[2] = NoResponse
    /\ Len(served) = 2
    /\ Readable(cache, endpoint, requests[2])
    /\ served[2] = cache[CacheKey(endpoint, requests[2])].data

\* ---- Cache keys ----

\* Every order in which the keys S can have been inserted.
Orders(S) ==
    {o \in [1 .. Cardinality(S) -> S] :
        \A i, j \in 1 .. Cardinality(S) : o[i] = o[j] => i = j}

\* Parameter mappings around those of the searches: a key more or fewer, a
\* value changed, a cursor advanced.
KeyedParams ==
    {EmptyDict, ("speaker" :> StrV(1)), ("speaker" :> StrV(2)),
     ("any" :> StrV(1)), ("startRecord" :> IntV(2))}
    \cup {("speaker" :> StrV(1)) @@ ("startRecord" :> c) :
             c \in {None, IntV(1), IntV(2), IntV(3), StrV(2)}}
    \cup {("speaker" :> StrV(1)) @@ ("startRecord" :> IntV(2))
             @@ ("maximumRecords" :> IntV(1))}

\* The key of the running request is the same under every insertion order
\* of its parameters.
KeyIgnoresInsertionOrder ==
    \A o \in Orders(DOMAIN cur_params) :
        CacheKeyOfItems(endpoint, Items(cur_params, o))
            = CacheKey(endpoint, cur_params)

\* Among the endpoints and the mappings above, only the running request
\* itself has the running request's key.
KeySeparatesRequests ==
    \A ep \in Endpoints, ps \in KeyedParams :
        (CacheKey(ep, ps) = CacheKey(endpoint, cur_params))
            <=> (ep = endpoint /\ ps = cur_params)

\* Requests of the running search that differ have different keys.
PagesHaveOwnKeys ==
    \A i, j \in 1 .. Len(requests) :
        requests[i] # requests[j]
            => CacheKey(endpoint, requests[i]) # CacheKey(endpoint, requests[j])

\* Every page that came from the cache was fetched under the key of its own
\* request.
CacheServesOwnKey ==
    \A i \in 1 .. Len(served) :
        responses[i] = NoResponse
            => <<CacheKey(endpoint, requests[i]), served[i]>> \in fetched

\* C25: the cache key is the same for a mapping under every insertion order
\* and differs whenever the endpoint or a key or a value differs, so a lookup
\* returns only data stored for an equal endpoint and an equal mapping, and
\* pages of one search that differ in startRecord never share an entry.
C25_KeyIdentifiesRequest ==
    /\ KeyIgnoresInsertionOrder
    /\ KeySeparatesRequests
    /\ PagesHaveOwnKeys
    /\ CacheServesOwnKey

\* A search with a cache directory whose second request, one key more than
\* the first and with its own key, was answered from the cache.
C25_Witness ==
    /\ cache_dir
    /\ Len(served) = 2
    /\ responses[2] = NoResponse
    /\ Cardinality(DOMAIN requests[2]) = 2
    /\ requests[1] # requests[2]
    /\ CacheKey(endpoint, requests[1]) \in DOMAIN cache
    /\ cache[CacheKey(endpoint, requests[1])] # cache[CacheKey(endpoint, requests[2])]

\* ---- Concurrent writers ----

\* C26 (as claimed): when concurrent calls read and write the file of one
\* key, every call that was answered from the cache got a complete response
\* that some call fetched, and every call that fetched returns its own data.
C26_RacingReadsAreWhole ==
    \A p \in Procs :
        proc[p].pc = "done" =>
            IF proc[p].hit
            THEN proc[p].got \in answered
            ELSE proc[p].got = proc[p].body

\* ---- Empty pages ----

\* A page with no record and a cursor that leads on.
EmptyWithCursor(page, key) ==
    /\ WellFormedPage(page, key)
    /\ PageRecords(page, key) = <<>>
    /\ HasCursor(page)

\* Every page of the running search so far was empty and had a cursor.
OnlyEmptyPagesSoFar ==
    /\ pc # "idle"
    /\ served # <<>>
    /\ \A i \in 1 .. Len(served) : EmptyWithCursor(served[i], record_key)

\* C27: a page with zero records and a present cursor neither ends nor fails
\* the search: however many such pages have come, with limit_total set or
\* unset, the search has returned nothing, has raised nothing and is about
\* to fetch the page the last cursor points to.
C27_EmptyPagesContinue ==
    OnlyEmptyPagesSoFar =>
        /\ pc = "loop"
        /\ err = NoError
        /\ result = NoResult
        /\ all_records = <<>>
        /\ pages = Len(served)
        /\ cur_params["startRecord"] = served[Len(served)]["nextRecordPosition"]

\* A capped search still in its loop after as many empty pages as the
\* model lets a search fetch.
C27_Witness ==
    /\ OnlyEmptyPagesSoFar
    /\ limit_total # None
    /\ pages = MaxPages
    /\ pc = "loop"

\* ---- The caller's mapping ----

\* The caller's mapping is what the first request of the search was made
\* with, and a returned result carries it in its params field.
CallersMappingReported ==
    /\ requests # <<>> => params = requests[1]
    /\ pc = "returned" => result.params = params

\* This step belongs to a search that has been called and not yet handed
\* over.
IsSearchStep == pc = "loop"

\* C28: search_records never modifies the mapping the caller passed: no step
\* of a search changes it, whether the search goes on, returns or raises, and
\* the params field of the result is that mapping, not the working copy with
\* the advanced cursor.
C28_CallersParamsUntouched ==
    /\ []CallersMappingReported
    /\ [][IsSearchStep => params' = params]_vars

\* A returned search of three pages whose caller passed startRecord = 1: the
\* working copy stands at cursor 3, the result reports 1.
C28_Witness ==
    /\ pc = "returned"
    /\ pages = 3
    /\ "startRecord" \in DOMAIN params
    /\ cur_params["startRecord"] = IntV(3)
    /\ result.params["startRecord"] = IntV(1)
    /\ params["startRecord"] = IntV(1)

\* ---- The result ----

\* C29: every returned result has pages >= 1 and retrievedRecords equal to
\* the length of records; under a cap L the records number at most L; and
\* truncated is true exactly when a cap is set and the records number L.
C29_ResultIsConsistent ==
    pc = "returned" =>
        /\ result.pages >= 1
        /\ result.pages = pages
        /\ result.retrievedRecords = Len(result.records)
        /\ limit_total # None => Len(result.records) <= limit_total.n
        /\ result.truncated
              <=> (limit_total # None /\ Len(result.records) = limit_total.n)

\* A result of more than one page cut at a cap of three.
C29_Witness ==
    /\ pc = "returned"
    /\ limit_total = IntV(3)
    /\ result.pages >= 2
    /\ result.truncated
    /\ result.retrievedRecords = 3

\* The pages served to the running search are a whole page sequence: all
\* well-formed, the last one without a cursor.
ServedWholeSequence ==
    /\ served # <<>>
    /\ \A i \in 1 .. Len(served) : WellFormedPage(served[i], record_key)
    /\ ~HasCursor(served[Len(served)])

\* C30 (as claimed): a capped search whose page sequence holds no more
\* records than the cap returns all of them with truncated = false.
C30_TruncatedOnlyWhenLeftOut ==
    (/\ pc = "returned"
     /\ limit_total # None
     /\ ServedWholeSequence
     /\ Len(ConcatPages(served, record_key)) <= limit_total.n)
    => /\ result.records = ConcatPages(served, record_key)
       /\ ~result.truncated

\* ------------------------------------------- properties: the two code paths

\* The field values the constructor call of the current query assigns.
AssignedFields == [f \in FieldNames |-> Given(query.kwargs, f)]

\* The wire name of a query field.
WireName(f) == Rename(FieldAlias(f))

\* The 16 condition fields and the 16 condition keys correspond one to one
\* under the rename table.
ConditionsCorrespond ==
    /\ {WireName(f) : f \in ConditionFields} = ConditionKeys
    /\ \A f, g \in ConditionFields : WireName(f) = WireName(g) => f = g

\* C31: the two condition checks agree: the parameters of every query that
\* constructs pass check_required_any_condition, so its search is not turned
\* down for lack of a condition, and the wire mapping of every field
\* assignment without a condition is turned down by
\* check_required_any_condition too; the condition fields and the condition
\* keys correspond one to one under the rename table.
C31_ConditionChecksAgree ==
    /\ ConditionsCorrespond
    /\ query.ok =>
          /\ CheckRequiredAnyCondition(ToParams(query.fields)) = NoError
          /\ pc = "raised" => err # DietSearchAPIError
    /\ (query.cls # "" /\ ~RequireSomeCondition(AssignedFields)) =>
          /\ ~query.ok
          /\ CheckRequiredAnyCondition(ToParams(AssignedFields))
                = DietSearchAPIError

\* A search under way for a query whose only condition is a renamed field.
C31_Witness ==
    /\ query.ok
    /\ pc = "loop"
    /\ DOMAIN query.kwargs = {"speech_id"}
    /\ "speechID" \in DOMAIN params

\* A page as the service sends it: a count, a list of mappings under the
\* record key or no such key, and a cursor or none.
LegacyWellFormed(page, key) ==
    /\ "numberOfRecords" \in DOMAIN page
    /\ NumberOfRecords(page).err = NoError
    /\ WellFormedPage(page, key)
    /\ \A i \in 1 .. Len(PageRecords(page, key)) : PageRecords(page, key)[i].isdict

\* _DietCore.search_records over the pages the running search was served,
\* from page i on with acc collected: where it has returned, or that it is
\* still in its loop after the last of them.
RECURSIVE CoreOver(_, _, _)
CoreOver(i, acc, limit) ==
    IF i > Len(served)
    THEN [pc |-> "loop", pages |-> i - 1, records |-> acc]
    ELSE LET raw == RawRecords(served[i], record_key)
             loop == AppendLoop(acc, raw.items, limit)
         IN IF loop.hit \/ ~Truthy(Get(served[i], "nextRecordPosition"))
            THEN [pc |-> "returned", pages |-> i, records |-> loop.records]
            ELSE CoreOver(i + 1, loop.records, limit)

\* The limit is unset or a positive int.
LimitUnsetOrPositive ==
    given_limit = None \/ (given_limit.t = "int" /\ given_limit.n > 0)

\* C32 (as claimed): over well-formed pages and with limit_total unset or
\* positive, a returned search of DietSearchClient has fetched as many pages
\* and holds the same records in the same order as search_records of
\* _DietCore over the same pages.
C32_PaginationPathsAgree ==
    (/\ pc = "returned"
     /\ LimitUnsetOrPositive
     /\ \A i \in 1 .. Len(served) : LegacyWellFormed(served[i], record_key))
    => CoreOver(1, <<>>, SanitizeLimit(given_limit).value)
          = [pc |-> "returned", pages |-> pages, records |-> result.records]

====
